---- MODULE Spec2Model ----
(***************************************************************************)
(* Model of the cusb descriptor tree: a cusbd device owning configuration, *)
(* interface, alternate interface, endpoint and string objects through     *)
(* ecu_dlist child lists, the attach functions that build the tree and     *)
(* cusbd_start(), the pass that validates the tree and writes the derived  *)
(* descriptor fields.                                                      *)
(*                                                                         *)
(* A failed ECU_RUNTIME_ASSERT calls ecu_assert_handler(), which does not  *)
(* return: the model sets `asserted` and takes no further step.            *)
(***************************************************************************)
EXTENDS Integers, Sequences, FiniteSets, TLC

(***************************************************************************)
(* Bounds: how many objects of each kind the application allocates.        *)
(***************************************************************************)
NumConfigurations == 2
NumInterfaces == 2
NumAlternateInterfaces == 2
NumEndpoints == 2
NumStrings == 1

\* The application makes at most MaxAttached successful attach calls.
MaxAttached == 4

\* The longest string literal, in UTF-16 code units, and the longest array
\* of language IDs the application builds a descriptor from.
MaxCharacters == 2
MaxLanguages == 2

\* The most configurations attached to the device where only their number
\* matters: more than an 8-bit field holds.
MaxConfigurationCount == 257

Configurations == 1..NumConfigurations
Interfaces == 1..NumInterfaces
AlternateInterfaces == 1..NumAlternateInterfaces
Endpoints == 1..NumEndpoints
Strings == 1..NumStrings

(***************************************************************************)
(* Program constants.                                                      *)
(***************************************************************************)
CUSB_DEVICE_DESCRIPTOR_TYPE == 1
CUSB_CONFIGURATION_DESCRIPTOR_TYPE == 2
CUSB_STRING_DESCRIPTOR_TYPE == 3
CUSB_INTERFACE_DESCRIPTOR_TYPE == 4
CUSB_ENDPOINT_DESCRIPTOR_TYPE == 5

SIZEOF_DEVICE_DESCRIPTOR == 18
SIZEOF_CONFIGURATION_DESCRIPTOR == 9
SIZEOF_INTERFACE_DESCRIPTOR == 9
SIZEOF_ENDPOINT_DESCRIPTOR == 7

CUSBD_MANUFACTURER_STRING_ID == 1
CUSBD_PRODUCT_STRING_ID == 2
CUSBD_SERIAL_NUMBER_STRING_ID == 3
CUSBD_USER_STRING_ID_BEGIN == 4

UINT8_MODULUS == 256

\* size_t arithmetic wraps; the narrowest size_t C allows has 16 bits.
SIZE_T_MODULUS == 65536

STRING_ZERO_BLENGTH_SIZE == 1
STRING_ZERO_BDESCRIPTOR_TYPE_SIZE == 1
STRING_BLENGTH_SIZE == 1
STRING_BDESCRIPTOR_TYPE_SIZE == 1
SIZEOF_CUSB_UTF16_T == 2
SIZEOF_WLANGID == 2

BENDPOINTADDRESS_NUMBER_BITMASK == 15
BENDPOINTADDRESS_RESERVED_BITMASK == 112
BMATTRIBUTES_TRANSFER_TYPE_BITMASK == 3
BMATTRIBUTES_SYNC_TYPE_BITMASK == 12
BMATTRIBUTES_USAGE_TYPE_BITMASK == 48
BMATTRIBUTES_CONTROL_TYPE == 0
BMATTRIBUTES_ISOCHRONOUS_TYPE == 1
BMATTRIBUTES_BULK_TYPE == 2
BMATTRIBUTES_INTERRUPT_TYPE == 3
BMATTRIBUTES_USAGE_TYPE_RESERVED == 48

VARIABLES
    cusbd,                     \* struct cusbd: descriptor, string0 and its four lists
    cusb_configuration,        \* struct cusb_configuration objects
    cusb_interface,            \* struct cusb_interface objects
    cusb_alternate_interface,  \* struct cusb_alternate_interface objects
    cusb_endpoint,             \* struct cusb_endpoint objects
    cusb_string,               \* struct cusb_string objects
    cusb_string_zero,          \* the struct cusb_string_zero object
    buf,                       \* the caller's buffer the send functions write to
    host,                      \* byte order of the CPU: "little" or "big"
    ret,                       \* value the last size, count or valid call returned
    descriptor_arg,            \* the descriptor the application passes to a constructor
    phase,                     \* "setup"; "started", "restarted": cusbd_start was the last call
                               \* to return, once or again; "modified": an attach returned since
    asserted,                  \* TRUE once an ECU_RUNTIME_ASSERT has fired
    attached                   \* number of attach calls that have returned

vars == <<cusbd, cusb_configuration, cusb_interface, cusb_alternate_interface,
          cusb_endpoint, cusb_string, cusb_string_zero, buf, host, descriptor_arg, ret,
          phase, asserted, attached>>

(***************************************************************************)
(* Bitwise AND of two 8-bit values.                                        *)
(***************************************************************************)
RECURSIVE BitAnd(_, _)
BitAnd(a, b) ==
    IF a = 0 \/ b = 0 THEN 0
    ELSE (a % 2) * (b % 2) + 2 * BitAnd(a \div 2, b \div 2)

(***************************************************************************)
(* Descriptor values as the *_DESCRIPTOR_CTOR macros build them: the       *)
(* derived fields start at 0.                                              *)
(***************************************************************************)
CUSB_DEVICE_DESCRIPTOR_CTOR(bMaxPacketSize0_) ==
    [bLength |-> SIZEOF_DEVICE_DESCRIPTOR,
     bDescriptorType |-> CUSB_DEVICE_DESCRIPTOR_TYPE,
     bMaxPacketSize0 |-> bMaxPacketSize0_,
     iManufacturer |-> 0, iProduct |-> 0, iSerialNumber |-> 0,
     bNumConfigurations |-> 0]

CUSB_CONFIGURATION_DESCRIPTOR_CTOR ==
    [bLength |-> SIZEOF_CONFIGURATION_DESCRIPTOR,
     bDescriptorType |-> CUSB_CONFIGURATION_DESCRIPTOR_TYPE,
     wTotalLength |-> 0, bNumInterfaces |-> 0,
     bConfigurationValue |-> 0, iConfiguration |-> 0]

CUSB_INTERFACE_DESCRIPTOR_CTOR ==
    [bLength |-> SIZEOF_INTERFACE_DESCRIPTOR,
     bDescriptorType |-> CUSB_INTERFACE_DESCRIPTOR_TYPE,
     bInterfaceNumber |-> 0, bAlternateSetting |-> 0,
     bNumEndpoints |-> 0, iInterface |-> 0]

CUSB_ENDPOINT_DESCRIPTOR_CTOR(bEndpointAddress_, bmAttributes_) ==
    [bLength |-> SIZEOF_ENDPOINT_DESCRIPTOR,
     bDescriptorType |-> CUSB_ENDPOINT_DESCRIPTOR_TYPE,
     bEndpointAddress |-> bEndpointAddress_,
     bmAttributes |-> bmAttributes_]

\* languages_ is the array of language IDs; sizeof(languages_) /
\* sizeof(languages_[0]) is its number of elements.
CUSB_STRING_DESCRIPTOR_ZERO_CTOR(languages_) ==
    [bLength |-> (STRING_ZERO_BLENGTH_SIZE + STRING_ZERO_BDESCRIPTOR_TYPE_SIZE
                    + Len(languages_)) % UINT8_MODULUS,
     bDescriptorType |-> CUSB_STRING_DESCRIPTOR_TYPE,
     wLANGID |-> languages_]

\* string_ is the sequence of the code units of the literal; u"..." stores
\* them followed by the NULL code unit, which sizeof() counts.
CUSB_STRING_DESCRIPTOR_CTOR(string_) ==
    [bLength |-> (STRING_BLENGTH_SIZE + STRING_BDESCRIPTOR_TYPE_SIZE
                    + SIZEOF_CUSB_UTF16_T * (Len(string_) + 1)
                    - SIZEOF_CUSB_UTF16_T) % UINT8_MODULUS,
     bDescriptorType |-> CUSB_STRING_DESCRIPTOR_TYPE,
     bString |-> string_ \o <<0>>]

(***************************************************************************)
(* Validity predicates.                                                    *)
(***************************************************************************)
device_descriptor_valid(descriptor) ==
    /\ descriptor.bLength = SIZEOF_DEVICE_DESCRIPTOR
    /\ descriptor.bDescriptorType = CUSB_DEVICE_DESCRIPTOR_TYPE
    /\ descriptor.bMaxPacketSize0 \in {8, 16, 32, 64}

configuration_descriptor_valid(descriptor) ==
    /\ descriptor.bLength = SIZEOF_CONFIGURATION_DESCRIPTOR
    /\ descriptor.bDescriptorType = CUSB_CONFIGURATION_DESCRIPTOR_TYPE

interface_descriptor_valid(descriptor) ==
    /\ descriptor.bLength = SIZEOF_INTERFACE_DESCRIPTOR
    /\ descriptor.bDescriptorType = CUSB_INTERFACE_DESCRIPTOR_TYPE

\* The switch and both tests read bEndpointAddress, as the source does.
\* Variant: the reserved bits of the address are not tested.
endpoint_descriptor_valid_reserved_untested(descriptor) ==
    LET bEndpointAddress == descriptor.bEndpointAddress
        type == BitAnd(bEndpointAddress, BMATTRIBUTES_TRANSFER_TYPE_BITMASK)
    IN  /\ descriptor.bLength = SIZEOF_ENDPOINT_DESCRIPTOR
        /\ descriptor.bDescriptorType = CUSB_ENDPOINT_DESCRIPTOR_TYPE
        /\ BitAnd(descriptor.bEndpointAddress, BENDPOINTADDRESS_NUMBER_BITMASK) > 0
        /\ IF type \in {BMATTRIBUTES_CONTROL_TYPE, BMATTRIBUTES_BULK_TYPE,
                        BMATTRIBUTES_INTERRUPT_TYPE}
           THEN \/ BitAnd(bEndpointAddress, BMATTRIBUTES_SYNC_TYPE_BITMASK) = 0
                \/ BitAnd(bEndpointAddress, BMATTRIBUTES_USAGE_TYPE_BITMASK) = 0
           ELSE BitAnd(bEndpointAddress, BMATTRIBUTES_USAGE_TYPE_BITMASK)
                    # BMATTRIBUTES_USAGE_TYPE_RESERVED

endpoint_descriptor_valid(descriptor) ==
    LET bEndpointAddress == descriptor.bEndpointAddress
        type == BitAnd(bEndpointAddress, BMATTRIBUTES_TRANSFER_TYPE_BITMASK)
    IN  /\ descriptor.bLength = SIZEOF_ENDPOINT_DESCRIPTOR
        /\ descriptor.bDescriptorType = CUSB_ENDPOINT_DESCRIPTOR_TYPE
        /\ BitAnd(descriptor.bEndpointAddress, BENDPOINTADDRESS_NUMBER_BITMASK) > 0
        /\ BitAnd(descriptor.bEndpointAddress, BENDPOINTADDRESS_RESERVED_BITMASK) = 0
        /\ IF type \in {BMATTRIBUTES_CONTROL_TYPE, BMATTRIBUTES_BULK_TYPE,
                        BMATTRIBUTES_INTERRUPT_TYPE}
           THEN \/ BitAnd(bEndpointAddress, BMATTRIBUTES_SYNC_TYPE_BITMASK) = 0
                \/ BitAnd(bEndpointAddress, BMATTRIBUTES_USAGE_TYPE_BITMASK) = 0
           ELSE BitAnd(bEndpointAddress, BMATTRIBUTES_USAGE_TYPE_BITMASK)
                    # BMATTRIBUTES_USAGE_TYPE_RESERVED

cusb_configuration_valid(me) == configuration_descriptor_valid(cusb_configuration[me].descriptor)
cusb_interface_valid(me) == interface_descriptor_valid(cusb_interface[me].descriptor)
cusb_alternate_interface_valid(me) ==
    interface_descriptor_valid(cusb_alternate_interface[me].descriptor)
cusb_endpoint_valid(me) == endpoint_descriptor_valid(cusb_endpoint[me].descriptor)

\* A null wLANGID or bString pointer: no array (C has no empty array).
NULL == <<>>

string_descriptor_zero_valid(descriptor) ==
    LET array_size == (descriptor.bLength - STRING_ZERO_BLENGTH_SIZE
                        - STRING_ZERO_BDESCRIPTOR_TYPE_SIZE) % SIZE_T_MODULUS
    IN  /\ descriptor.wLANGID # NULL
        /\ array_size >= SIZEOF_WLANGID
        /\ array_size % SIZEOF_WLANGID = 0
        /\ descriptor.bDescriptorType = CUSB_STRING_DESCRIPTOR_TYPE

string_descriptor_valid(descriptor) ==
    LET array_size == (descriptor.bLength - STRING_BLENGTH_SIZE
                        - STRING_BDESCRIPTOR_TYPE_SIZE
                        - SIZEOF_CUSB_UTF16_T) % SIZE_T_MODULUS
    IN  /\ descriptor.bString # NULL
        /\ array_size >= SIZEOF_CUSB_UTF16_T
        /\ array_size % SIZEOF_CUSB_UTF16_T = 0
        /\ descriptor.bDescriptorType = CUSB_STRING_DESCRIPTOR_TYPE

cusb_string_zero_valid == string_descriptor_zero_valid(cusb_string_zero.descriptor)
cusb_string_valid(me) == string_descriptor_valid(cusb_string[me].descriptor)

(***************************************************************************)
(* Inputs the application passes to the constructors.                      *)
(***************************************************************************)
\* 0x81 (endpoint1 IN) and 0x01 (endpoint1 OUT).  The first endpoint object
\* is endpoint1 IN; every other one is either, so that equal and different
\* addresses both meet under one owner and under two.
EndpointAddressInputs(endpoint) == IF endpoint = 1 THEN {129} ELSE {129, 1}

EndpointDescriptorInputs(endpoint) ==
    {CUSB_ENDPOINT_DESCRIPTOR_CTOR(a, BMATTRIBUTES_BULK_TYPE) :
        a \in EndpointAddressInputs(endpoint)}

ConfigurationDescriptorInputs == {CUSB_CONFIGURATION_DESCRIPTOR_CTOR}

String0Inputs == {"CUSBD_STRING_ZERO_UNUSED", "populated"}

\* The application holds no descriptor that it has yet to pass to a
\* constructor: every object is constructed.
NoDescriptor == [kind |-> "none"]

\* UTF-16 code units of the literals: 'A' (0x0041) and Hiragana A (0x3042),
\* whose two bytes differ.
CodeUnits == {65, 12354}

\* The literals of 1..MaxCharacters code units.
StringLiteralInputs == UNION {[1..n -> CodeUnits] : n \in 1..MaxCharacters}

\* The descriptors cusb_string_ctor() accepts: it asserts
\* string_descriptor_valid(descriptor).
StringDescriptorInputs ==
    {d \in {CUSB_STRING_DESCRIPTOR_CTOR(literal) : literal \in StringLiteralInputs} :
        string_descriptor_valid(d)}

\* Arrays of 1..MaxLanguages language IDs: 0x0409, 0x0809, 0x0C09, ...
\* (English of the United States, of the United Kingdom, of Australia, ...).
LanguagesInputs == {[k \in 1..n |-> 1033 + 1024 * (k - 1)] : n \in 1..MaxLanguages}

\* The descriptors cusb_string_zero_ctor() accepts: it asserts
\* string_descriptor_zero_valid(descriptor).
StringDescriptorZeroInputs ==
    {d \in {CUSB_STRING_DESCRIPTOR_ZERO_CTOR(languages) : languages \in LanguagesInputs} :
        string_descriptor_zero_valid(d)}

\* The caller's buffers: up to one byte more than the longest descriptor,
\* every byte 0xFF, which no descriptor of these inputs holds.
MaxBufferLength ==
    STRING_BLENGTH_SIZE + STRING_BDESCRIPTOR_TYPE_SIZE
        + SIZEOF_CUSB_UTF16_T * MaxCharacters + 1

BufferInputs == {[k \in 1..n |-> 255] : n \in 0..MaxBufferLength}

HostInputs == {"little", "big"}

(***************************************************************************)
(* State after cusbd_ctor() and the node constructors.                     *)
(***************************************************************************)
InitTree ==
    /\ \E string0 \in String0Inputs :
         cusbd = [descriptor |-> CUSB_DEVICE_DESCRIPTOR_CTOR(8),
                  string0 |-> string0,
                  configurations |-> <<>>,
                  manufacturer_strings |-> <<>>,
                  product_strings |-> <<>>,
                  serial_number_strings |-> <<>>]
    /\ \E d \in [Configurations -> ConfigurationDescriptorInputs] :
         cusb_configuration =
            [c \in Configurations |->
                [descriptor |-> d[c], dnode |-> FALSE,
                 interfaces |-> <<>>, strings |-> <<>>]]
    /\ cusb_interface =
            [i \in Interfaces |->
                [descriptor |-> CUSB_INTERFACE_DESCRIPTOR_CTOR, dnode |-> FALSE,
                 alternate_interfaces |-> <<>>, endpoints |-> <<>>, strings |-> <<>>]]
    /\ cusb_alternate_interface =
            [a \in AlternateInterfaces |->
                [descriptor |-> CUSB_INTERFACE_DESCRIPTOR_CTOR, dnode |-> FALSE,
                 endpoints |-> <<>>, strings |-> <<>>]]
    \* cusb_endpoint_ctor() asserts endpoint_descriptor_valid(descriptor).
    /\ cusb_endpoint \in
            [Endpoints -> [descriptor : UNION {EndpointDescriptorInputs(e) : e \in Endpoints},
                           dnode : {FALSE}]]
    /\ \A e \in Endpoints :
            /\ cusb_endpoint[e].descriptor \in EndpointDescriptorInputs(e)
            /\ endpoint_descriptor_valid(cusb_endpoint[e].descriptor)
    /\ ret = 0
    /\ descriptor_arg = NoDescriptor
    /\ phase = "setup"
    /\ asserted = FALSE
    /\ attached = 0

\* The descriptor tree is built with one string literal, u"A\u3042", and
\* nothing is serialised.
Init ==
    /\ InitTree
    /\ cusb_string =
            [s \in Strings |->
                [descriptor |-> CUSB_STRING_DESCRIPTOR_CTOR(<<65, 12354>>),
                 dnode |-> FALSE]]
    /\ cusb_string_zero =
            [descriptor |-> CUSB_STRING_DESCRIPTOR_ZERO_CTOR(<<1033, 2057>>)]
    /\ buf = <<>>
    /\ host = "little"

(***************************************************************************)
(* ecu_dlist: a child list is the sequence of its nodes in push_back       *)
(* order.  The list is intrusive: the dnode member of an object records    *)
(* whether the object is within a list (FALSE after ecu_dnode_ctor()).     *)
(***************************************************************************)
Range(list) == {list[k] : k \in 1..Len(list)}

ecu_dlist_size(list) == Len(list)

configuration_in_list(configuration) == cusb_configuration[configuration].dnode

interface_in_list(interface) == cusb_interface[interface].dnode

alternate_interface_in_list(alternate_interface) ==
    cusb_alternate_interface[alternate_interface].dnode

endpoint_in_list(endpoint) == cusb_endpoint[endpoint].dnode

string_in_list(string) == cusb_string[string].dnode

\* The dnode of the node once ecu_dlist_push_back() has linked it.
ecu_dnode_linked(objects, node) == [objects EXCEPT ![node].dnode = TRUE]

\* ecu_dlist_push_back(): appends the node at the tail of the list.
ecu_dlist_push_back(list, node) == Append(list, node)

(***************************************************************************)
(* Outcome of a call.  Abort: an assertion fired before any list changed.  *)
(* Returned: an attach returned normally; once cusbd_start() has returned, *)
(* a later attach leaves the "started" phase.                              *)
(***************************************************************************)
Running == asserted = FALSE

\* An object is touched once it is linked into a list or owns a child.
configuration_touched(configuration) ==
    \/ configuration_in_list(configuration)
    \/ cusb_configuration[configuration].interfaces # <<>>
    \/ cusb_configuration[configuration].strings # <<>>

interface_touched(interface) ==
    \/ interface_in_list(interface)
    \/ cusb_interface[interface].alternate_interfaces # <<>>
    \/ cusb_interface[interface].endpoints # <<>>
    \/ cusb_interface[interface].strings # <<>>

alternate_interface_touched(alternate_interface) ==
    \/ alternate_interface_in_list(alternate_interface)
    \/ cusb_alternate_interface[alternate_interface].endpoints # <<>>
    \/ cusb_alternate_interface[alternate_interface].strings # <<>>

TouchedConfigurations == {k \in Configurations : configuration_touched(k)}
TouchedInterfaces == {k \in Interfaces : interface_touched(k)}
TouchedAlternateInterfaces == {k \in AlternateInterfaces : alternate_interface_touched(k)}
TouchedEndpoints == {k \in Endpoints : endpoint_in_list(k)}
TouchedStrings == {k \in Strings : string_in_list(k)}

\* The objects of one kind are constructed alike, so the application is
\* taken to use them in the order it allocated them: object k is passed to
\* an attach function, as the parent or as the child, only once objects
\* 1..k-1 of its kind are touched.
FirstUse(object, touched) == \A k \in 1..(object - 1) : k \in touched

\* The application makes at most MaxAttached attach calls that return.
MayAttach(node, touched) ==
    /\ Running
    /\ attached < MaxAttached
    /\ FirstUse(node, touched)

Returned ==
    /\ phase' = IF phase = "setup" THEN "setup" ELSE "modified"
    /\ attached' = attached + 1
    /\ UNCHANGED <<cusb_string_zero, buf, host, descriptor_arg, ret>>

Abort ==
    /\ asserted' = TRUE
    /\ UNCHANGED <<cusbd, cusb_configuration, cusb_interface,
                   cusb_alternate_interface, cusb_endpoint, cusb_string,
                   cusb_string_zero, buf, host, descriptor_arg, ret, phase, attached>>

(***************************************************************************)
(* Attach functions of the device.                                         *)
(***************************************************************************)
cusbd_add_configuration(configuration) ==
    /\ MayAttach(configuration, TouchedConfigurations)
    /\ IF configuration_in_list(configuration)
       THEN Abort
       ELSE /\ cusbd' = [cusbd EXCEPT !.configurations =
                            ecu_dlist_push_back(@, configuration)]
            /\ cusb_configuration' = ecu_dnode_linked(cusb_configuration, configuration)
            /\ Returned
            /\ UNCHANGED <<cusb_interface, cusb_alternate_interface,
                           cusb_endpoint, cusb_string, asserted>>

cusbd_add_manufacturer_string(string) ==
    /\ MayAttach(string, TouchedStrings)
    /\ IF string_in_list(string)
       THEN Abort
       ELSE /\ cusbd' = [cusbd EXCEPT !.manufacturer_strings =
                            ecu_dlist_push_back(@, string)]
            /\ cusb_string' = ecu_dnode_linked(cusb_string, string)
            /\ Returned
            /\ UNCHANGED <<cusb_configuration, cusb_interface,
                           cusb_alternate_interface, cusb_endpoint,
                           asserted>>

cusbd_add_product_string(string) ==
    /\ MayAttach(string, TouchedStrings)
    /\ IF string_in_list(string)
       THEN Abort
       ELSE /\ cusbd' = [cusbd EXCEPT !.product_strings =
                            ecu_dlist_push_back(@, string)]
            /\ cusb_string' = ecu_dnode_linked(cusb_string, string)
            /\ Returned
            /\ UNCHANGED <<cusb_configuration, cusb_interface,
                           cusb_alternate_interface, cusb_endpoint,
                           asserted>>

cusbd_add_serial_number_string(string) ==
    /\ MayAttach(string, TouchedStrings)
    /\ IF string_in_list(string)
       THEN Abort
       ELSE /\ cusbd' = [cusbd EXCEPT !.serial_number_strings =
                            ecu_dlist_push_back(@, string)]
            /\ cusb_string' = ecu_dnode_linked(cusb_string, string)
            /\ Returned
            /\ UNCHANGED <<cusb_configuration, cusb_interface,
                           cusb_alternate_interface, cusb_endpoint,
                           asserted>>

(***************************************************************************)
(* Attach functions of a configuration.                                    *)
(***************************************************************************)
\* Variant: the list insertion does not reject a node that is already linked.
cusb_configuration_add_interface_unchecked(me, interface) ==
    /\ MayAttach(interface, TouchedInterfaces)
    /\ FirstUse(me, TouchedConfigurations)
    /\ cusb_configuration' = [cusb_configuration EXCEPT ![me].interfaces =
                    ecu_dlist_push_back(@, interface)]
    /\ cusb_interface' = ecu_dnode_linked(cusb_interface, interface)
    /\ Returned
    /\ UNCHANGED <<cusbd, cusb_alternate_interface, cusb_endpoint,
                   cusb_string, asserted>>

cusb_configuration_add_interface(me, interface) ==
    /\ MayAttach(interface, TouchedInterfaces)
    /\ FirstUse(me, TouchedConfigurations)
    /\ IF interface_in_list(interface)
       THEN Abort
       ELSE /\ cusb_configuration' = [cusb_configuration EXCEPT ![me].interfaces =
                            ecu_dlist_push_back(@, interface)]
            /\ cusb_interface' = ecu_dnode_linked(cusb_interface, interface)
            /\ Returned
            /\ UNCHANGED <<cusbd, cusb_alternate_interface, cusb_endpoint,
                           cusb_string, asserted>>

cusb_configuration_add_string(me, string) ==
    /\ MayAttach(string, TouchedStrings)
    /\ FirstUse(me, TouchedConfigurations)
    /\ IF string_in_list(string)
       THEN Abort
       ELSE /\ cusb_configuration' = [cusb_configuration EXCEPT ![me].strings =
                            ecu_dlist_push_back(@, string)]
            /\ cusb_string' = ecu_dnode_linked(cusb_string, string)
            /\ Returned
            /\ UNCHANGED <<cusbd, cusb_interface, cusb_alternate_interface,
                           cusb_endpoint, asserted>>

(***************************************************************************)
(* Attach functions of an interface.                                       *)
(***************************************************************************)
cusb_interface_add_alternate_interface(me, alternate_interface) ==
    /\ MayAttach(alternate_interface, TouchedAlternateInterfaces)
    /\ FirstUse(me, TouchedInterfaces)
    /\ IF alternate_interface_in_list(alternate_interface)
       THEN Abort
       ELSE /\ cusb_interface' = [cusb_interface EXCEPT ![me].alternate_interfaces =
                            ecu_dlist_push_back(@, alternate_interface)]
            /\ cusb_alternate_interface' = ecu_dnode_linked(cusb_alternate_interface, alternate_interface)
            /\ Returned
            /\ UNCHANGED <<cusbd, cusb_configuration, cusb_endpoint,
                           cusb_string, asserted>>

\* Variant: the address is looked up among the endpoints of every interface.
interface_has_address_any_owner(me, endpoint) ==
    \E i \in Interfaces : \E n \in 1..Len(cusb_interface[i].endpoints) :
        cusb_endpoint[cusb_interface[i].endpoints[n]].descriptor.bEndpointAddress
            = cusb_endpoint[endpoint].descriptor.bEndpointAddress

\* The loop over me->endpoints that asserts every stored address differs
\* from the new endpoint's address.
interface_has_address(me, endpoint) ==
    \E n \in 1..Len(cusb_interface[me].endpoints) :
        cusb_endpoint[cusb_interface[me].endpoints[n]].descriptor.bEndpointAddress
            = cusb_endpoint[endpoint].descriptor.bEndpointAddress

cusb_interface_add_endpoint(me, endpoint) ==
    /\ MayAttach(endpoint, TouchedEndpoints)
    /\ FirstUse(me, TouchedInterfaces)
    /\ IF interface_has_address(me, endpoint) \/ endpoint_in_list(endpoint)
       THEN Abort
       ELSE /\ cusb_interface' = [cusb_interface EXCEPT ![me].endpoints =
                            ecu_dlist_push_back(@, endpoint)]
            /\ cusb_endpoint' = ecu_dnode_linked(cusb_endpoint, endpoint)
            /\ Returned
            /\ UNCHANGED <<cusbd, cusb_configuration,
                           cusb_alternate_interface, cusb_string, asserted>>

cusb_interface_add_string(me, string) ==
    /\ MayAttach(string, TouchedStrings)
    /\ FirstUse(me, TouchedInterfaces)
    /\ IF string_in_list(string)
       THEN Abort
       ELSE /\ cusb_interface' = [cusb_interface EXCEPT ![me].strings =
                            ecu_dlist_push_back(@, string)]
            /\ cusb_string' = ecu_dnode_linked(cusb_string, string)
            /\ Returned
            /\ UNCHANGED <<cusbd, cusb_configuration,
                           cusb_alternate_interface, cusb_endpoint,
                           asserted>>

(***************************************************************************)
(* Attach functions of an alternate interface.                             *)
(***************************************************************************)
alternate_interface_has_address(me, endpoint) ==
    \E n \in 1..Len(cusb_alternate_interface[me].endpoints) :
        cusb_endpoint[cusb_alternate_interface[me].endpoints[n]].descriptor.bEndpointAddress
            = cusb_endpoint[endpoint].descriptor.bEndpointAddress

cusb_alternate_interface_add_endpoint(me, endpoint) ==
    /\ MayAttach(endpoint, TouchedEndpoints)
    /\ FirstUse(me, TouchedAlternateInterfaces)
    /\ IF alternate_interface_has_address(me, endpoint) \/ endpoint_in_list(endpoint)
       THEN Abort
       ELSE /\ cusb_alternate_interface' =
                    [cusb_alternate_interface EXCEPT ![me].endpoints =
                            ecu_dlist_push_back(@, endpoint)]
            /\ cusb_endpoint' = ecu_dnode_linked(cusb_endpoint, endpoint)
            /\ Returned
            /\ UNCHANGED <<cusbd, cusb_configuration, cusb_interface,
                           cusb_string, asserted>>

cusb_alternate_interface_add_string(me, string) ==
    /\ MayAttach(string, TouchedStrings)
    /\ FirstUse(me, TouchedAlternateInterfaces)
    /\ IF string_in_list(string)
       THEN Abort
       ELSE /\ cusb_alternate_interface' =
                    [cusb_alternate_interface EXCEPT ![me].strings =
                            ecu_dlist_push_back(@, string)]
            /\ cusb_string' = ecu_dnode_linked(cusb_string, string)
            /\ Returned
            /\ UNCHANGED <<cusbd, cusb_configuration, cusb_interface,
                           cusb_endpoint, asserted>>

(***************************************************************************)
(* cusbd_start().                                                          *)
(***************************************************************************)
\* Every ECU_RUNTIME_ASSERT( cusb_*_valid() ) of the traversal passes.
start_tree_valid ==
    \A c \in Range(cusbd.configurations) :
        /\ cusb_configuration_valid(c)
        /\ \A i \in Range(cusb_configuration[c].interfaces) :
            /\ cusb_interface_valid(i)
            /\ \A e \in Range(cusb_interface[i].endpoints) : cusb_endpoint_valid(e)
            /\ \A ai \in Range(cusb_interface[i].alternate_interfaces) :
                /\ cusb_alternate_interface_valid(ai)
                /\ \A e \in Range(cusb_alternate_interface[ai].endpoints) :
                        cusb_endpoint_valid(e)

\* Variant: the local count starts from the stored field instead of 0.
start_bNumConfigurations_accumulated ==
    cusbd.descriptor.bNumConfigurations + ecu_dlist_size(cusbd.configurations)

\* The local bNumConfigurations: incremented once per iteration of the
\* loop over me->configurations.
start_bNumConfigurations == ecu_dlist_size(cusbd.configurations)

\* The device descriptor after the three unconditional writes that precede
\* the traversal.
start_string_ids(descriptor) ==
    [descriptor EXCEPT !.iManufacturer = CUSBD_MANUFACTURER_STRING_ID,
                       !.iProduct = CUSBD_PRODUCT_STRING_ID,
                       !.iSerialNumber = CUSBD_SERIAL_NUMBER_STRING_ID]

\* Variant: the count is left in the local, like the other derived values.
start_store_bNumConfigurations_dropped(descriptor, bNumConfigurations) == descriptor

\* The store of the size_t count into the uint8_t field.
start_store_bNumConfigurations(descriptor, bNumConfigurations) ==
    [descriptor EXCEPT !.bNumConfigurations = bNumConfigurations % UINT8_MODULUS]

\* Variant: the final assertion accepts an empty list of configurations.
start_has_configuration_unchecked(bNumConfigurations) == bNumConfigurations >= 0

\* ECU_RUNTIME_ASSERT( (bNumConfigurations >= 1) ) after the traversal.
start_has_configuration(bNumConfigurations) == bNumConfigurations >= 1

\* The remaining locals (wTotalLength, bNumInterfaces, bConfigurationValue,
\* bInterfaceNumber, bAlternateSetting, bNumEndpoints, string_index) are
\* computed or only initialised by the traversal and never stored in any
\* descriptor, so no object other than the device descriptor changes.
cusbd_start ==
    /\ Running
    /\ IF ~device_descriptor_valid(cusbd.descriptor)
       THEN Abort
       ELSE IF ~start_tree_valid \/ ~start_has_configuration(start_bNumConfigurations)
       THEN /\ cusbd' = [cusbd EXCEPT !.descriptor = start_string_ids(@)]
            /\ asserted' = TRUE
            /\ UNCHANGED <<cusb_configuration, cusb_interface,
                           cusb_alternate_interface, cusb_endpoint, cusb_string,
                           cusb_string_zero, buf, host, descriptor_arg, ret, phase, attached>>
       ELSE /\ cusbd' = [cusbd EXCEPT !.descriptor =
                    start_store_bNumConfigurations(start_string_ids(@),
                                                   start_bNumConfigurations)]
            /\ phase' = IF phase \in {"started", "restarted"}
                        THEN "restarted" ELSE "started"
            /\ UNCHANGED <<cusb_configuration, cusb_interface,
                           cusb_alternate_interface, cusb_endpoint, cusb_string,
                           cusb_string_zero, buf, host, descriptor_arg, ret, asserted, attached>>

(***************************************************************************)
(* The functions that compute a size or a count from the tree.             *)
(***************************************************************************)
cusb_configuration_interface_count(me) == ecu_dlist_size(cusb_configuration[me].interfaces)

\* bytes = sizeof(interface descriptor); bytes += size(endpoints) * sizeof(...).
cusb_alternate_interface_size(me) ==
    (SIZEOF_INTERFACE_DESCRIPTOR
        + ecu_dlist_size(cusb_alternate_interface[me].endpoints)
            * SIZEOF_ENDPOINT_DESCRIPTOR) % SIZE_T_MODULUS

\* The loop of cusb_interface_size(): bytes += cusb_alternate_interface_size()
\* for each alternate interface of the list.
RECURSIVE interface_size_loop(_, _)
interface_size_loop(bytes, list) ==
    IF list = <<>> THEN bytes
    ELSE interface_size_loop(
            (bytes + cusb_alternate_interface_size(Head(list))) % SIZE_T_MODULUS,
            Tail(list))

\* bytes is initialised with sizeof(struct cusb_interface_descriptor) and
\* then ASSIGNED ("bytes = ...", not "bytes += ...") the size of the
\* endpoints, so the initial value is lost before the loop.
cusb_interface_size(me) ==
    LET initialised == SIZEOF_INTERFACE_DESCRIPTOR
        assigned == (ecu_dlist_size(cusb_interface[me].endpoints)
                        * SIZEOF_ENDPOINT_DESCRIPTOR) % SIZE_T_MODULUS
    IN  interface_size_loop(assigned, cusb_interface[me].alternate_interfaces)

\* The loop of cusb_configuration_size(): bytes += cusb_interface_size() for
\* each interface of the list.
RECURSIVE configuration_size_loop(_, _)
configuration_size_loop(bytes, list) ==
    IF list = <<>> THEN bytes
    ELSE configuration_size_loop(
            (bytes + cusb_interface_size(Head(list))) % SIZE_T_MODULUS,
            Tail(list))

cusb_configuration_size(me) ==
    configuration_size_loop(SIZEOF_CONFIGURATION_DESCRIPTOR,
                            cusb_configuration[me].interfaces)

(***************************************************************************)
(* Serialisation of the string descriptors (string.c).                     *)
(***************************************************************************)
\* Variant: the value is copied as the CPU holds it.
ECU_CPU_TO_LE16_RUNTIME_omitted(value) == value

\* Conversion of a 16-bit value from CPU order to little endian: the
\* identity on a little-endian CPU, a swap of the two bytes on a big-endian
\* one.
ECU_CPU_TO_LE16_RUNTIME(value) ==
    IF host = "little"
    THEN value
    ELSE (value % UINT8_MODULUS) * UINT8_MODULUS + value \div UINT8_MODULUS

\* memcpy(curr, &value, sizeof(value)): the two bytes of a uint16_t object
\* in the order the CPU stores them.
memcpy_uint16(value) ==
    IF host = "little"
    THEN <<value % UINT8_MODULUS, value \div UINT8_MODULUS>>
    ELSE <<value \div UINT8_MODULUS, value % UINT8_MODULUS>>

\* The bytes the loop of a send function copies: element i of the array,
\* converted, for i < count.
send_array_bytes(array, count) ==
    [k \in 1..(2 * count) |->
        memcpy_uint16(ECU_CPU_TO_LE16_RUNTIME(array[(k + 1) \div 2]))[2 - (k % 2)]]

\* memcpy() of bLength and of bDescriptorType.
send_header_bytes(descriptor) == <<descriptor.bLength, descriptor.bDescriptorType>>

\* The buffer after `bytes` were copied to its start.
buf_written(bytes) == bytes \o SubSeq(buf, Len(bytes) + 1, Len(buf))

\* Variant: the length of the buffer is not compared with bLength.
send_len_sufficient_unchecked(len, bLength) == TRUE

\* ECU_RUNTIME_ASSERT( (len >= me->descriptor->bLength) ).
send_len_sufficient(len, bLength) == len >= bLength

string_zero_array_size ==
    (cusb_string_zero.descriptor.bLength - STRING_ZERO_BLENGTH_SIZE
        - STRING_ZERO_BDESCRIPTOR_TYPE_SIZE) % SIZE_T_MODULUS

cusb_string_zero_langid_count == string_zero_array_size \div SIZEOF_WLANGID

string_array_size(me) ==
    (cusb_string[me].descriptor.bLength - STRING_BLENGTH_SIZE
        - STRING_BDESCRIPTOR_TYPE_SIZE) % SIZE_T_MODULUS

cusb_string_character_count(me) == string_array_size(me) \div SIZEOF_CUSB_UTF16_T

\* A send that returned changes the buffer and nothing else.
Sent ==
    UNCHANGED <<cusbd, cusb_configuration, cusb_interface, cusb_alternate_interface,
                cusb_endpoint, cusb_string, cusb_string_zero, host, descriptor_arg, ret, phase,
                asserted, attached>>

\* A send that failed the assertion of the count function, after the two
\* bytes of the header were copied.
SentHeader(descriptor) ==
    /\ buf' = buf_written(send_header_bytes(descriptor))
    /\ asserted' = TRUE
    /\ UNCHANGED <<cusbd, cusb_configuration, cusb_interface,
                   cusb_alternate_interface, cusb_endpoint, cusb_string,
                   cusb_string_zero, host, descriptor_arg, ret, phase, attached>>

\* The loop of a send function reads element i of the array and writes two
\* bytes to buf for every i < count: it leaves the array or the memory of
\* buf when there are fewer elements or fewer bytes.
send_overruns(array, count) ==
    \/ count > Len(array)
    \/ STRING_BLENGTH_SIZE + STRING_BDESCRIPTOR_TYPE_SIZE + 2 * count > Len(buf)

\* Values of a byte that is read from outside the array.
IndeterminateBytes == {0, 255}

\* A send whose loop leaves the array or buf: the behaviour is undefined.
\* The header and the elements of the array are copied as far as buf
\* reaches.  Then either a fault stops the program, or the loop goes on
\* and every further byte of buf that it reaches holds an indeterminate
\* value.
SentOverrun(descriptor, array, count) ==
    LET elements == IF count < Len(array) THEN count ELSE Len(array)
        bytes == send_header_bytes(descriptor) \o send_array_bytes(array, elements)
        copied == SubSeq(bytes, 1, IF Len(bytes) < Len(buf) THEN Len(bytes) ELSE Len(buf))
        size == STRING_BLENGTH_SIZE + STRING_BDESCRIPTOR_TYPE_SIZE + 2 * count
        reached == IF size < Len(buf) THEN size ELSE Len(buf)
    IN  /\ \E fault \in BOOLEAN, byte \in IndeterminateBytes :
            /\ asserted' = fault
            /\ buf' = IF fault
                      THEN buf_written(copied)
                      ELSE buf_written(copied \o [k \in 1..(reached - Len(copied)) |-> byte])
        /\ UNCHANGED <<cusbd, cusb_configuration, cusb_interface,
                       cusb_alternate_interface, cusb_endpoint, cusb_string,
                       cusb_string_zero, host, descriptor_arg, ret, phase, attached>>

\* len is the size the caller states for buf.
cusb_string_zero_send(len) ==
    /\ Running
    /\ IF ~cusb_string_zero_valid
          \/ ~send_len_sufficient(len, cusb_string_zero.descriptor.bLength)
       THEN Abort
       ELSE IF string_zero_array_size % SIZEOF_WLANGID # 0
       THEN SentHeader(cusb_string_zero.descriptor)
       ELSE IF send_overruns(cusb_string_zero.descriptor.wLANGID,
                             cusb_string_zero_langid_count)
       THEN SentOverrun(cusb_string_zero.descriptor,
                        cusb_string_zero.descriptor.wLANGID,
                        cusb_string_zero_langid_count)
       ELSE /\ buf' = buf_written(
                    send_header_bytes(cusb_string_zero.descriptor)
                        \o send_array_bytes(cusb_string_zero.descriptor.wLANGID,
                                            cusb_string_zero_langid_count))
            /\ Sent

cusb_string_send(me, len) ==
    /\ Running
    /\ IF ~cusb_string_valid(me)
          \/ ~send_len_sufficient(len, cusb_string[me].descriptor.bLength)
       THEN Abort
       ELSE IF string_array_size(me) % SIZEOF_CUSB_UTF16_T # 0
       THEN SentHeader(cusb_string[me].descriptor)
       ELSE IF send_overruns(cusb_string[me].descriptor.bString,
                             cusb_string_character_count(me))
       THEN SentOverrun(cusb_string[me].descriptor,
                        cusb_string[me].descriptor.bString,
                        cusb_string_character_count(me))
       ELSE /\ buf' = buf_written(
                    send_header_bytes(cusb_string[me].descriptor)
                        \o send_array_bytes(cusb_string[me].descriptor.bString,
                                            cusb_string_character_count(me)))
            /\ Sent

(***************************************************************************)
(* Calls of the functions that return a value.  Every one takes a pointer  *)
(* to const, asserts it is not null and returns the computed value.        *)
(***************************************************************************)
\* A C bool as the caller receives it.
bool(condition) == IF condition THEN 1 ELSE 0

\* Variant: the call also stores the value it returns in the device
\* descriptor.
Read_storing(value) ==
    /\ Running
    /\ ret' = value
    /\ cusbd' = [cusbd EXCEPT !.descriptor.bNumConfigurations = value % UINT8_MODULUS]
    /\ UNCHANGED <<cusb_configuration, cusb_interface, cusb_alternate_interface,
                   cusb_endpoint, cusb_string, cusb_string_zero, buf, host, descriptor_arg, phase,
                   asserted, attached>>

\* The call returns `value` to the caller and writes to no object.
Read(value) ==
    /\ Running
    /\ ret' = value
    /\ UNCHANGED <<cusbd, cusb_configuration, cusb_interface,
                   cusb_alternate_interface, cusb_endpoint, cusb_string,
                   cusb_string_zero, buf, host, descriptor_arg, phase, asserted, attached>>

read_cusb_configuration_valid(me) == Read(bool(cusb_configuration_valid(me)))
read_cusb_interface_valid(me) == Read(bool(cusb_interface_valid(me)))
read_cusb_alternate_interface_valid(me) == Read(bool(cusb_alternate_interface_valid(me)))
read_cusb_endpoint_valid(me) == Read(bool(cusb_endpoint_valid(me)))
read_cusb_string_valid(me) == Read(bool(cusb_string_valid(me)))
read_cusb_string_zero_valid == Read(bool(cusb_string_zero_valid))
read_cusb_configuration_interface_count(me) == Read(cusb_configuration_interface_count(me))
read_cusb_configuration_size(me) == Read(cusb_configuration_size(me))
read_cusb_interface_size(me) == Read(cusb_interface_size(me))
read_cusb_alternate_interface_size(me) == Read(cusb_alternate_interface_size(me))

\* cusbd_start() was the last call to return: the tree is as it left it.
StartReturned == phase \in {"started", "restarted"}

(***************************************************************************)
(* The application calls the API functions in any order.                   *)
(***************************************************************************)
Next ==
    \/ \E c \in Configurations : cusbd_add_configuration(c)
    \/ \E s \in Strings : cusbd_add_manufacturer_string(s)
    \/ \E s \in Strings : cusbd_add_product_string(s)
    \/ \E s \in Strings : cusbd_add_serial_number_string(s)
    \/ \E c \in Configurations, i \in Interfaces : cusb_configuration_add_interface(c, i)
    \/ \E c \in Configurations, s \in Strings : cusb_configuration_add_string(c, s)
    \/ \E i \in Interfaces, a \in AlternateInterfaces :
            cusb_interface_add_alternate_interface(i, a)
    \/ \E i \in Interfaces, e \in Endpoints : cusb_interface_add_endpoint(i, e)
    \/ \E i \in Interfaces, s \in Strings : cusb_interface_add_string(i, s)
    \/ \E a \in AlternateInterfaces, e \in Endpoints :
            cusb_alternate_interface_add_endpoint(a, e)
    \/ \E a \in AlternateInterfaces, s \in Strings :
            cusb_alternate_interface_add_string(a, s)
    \/ cusbd_start

Spec == Init /\ [][Next]_vars

(***************************************************************************)
(* The application builds the strings from any literal, attaches           *)
(* configurations, starts the device and serialises the strings into any   *)
(* buffer, on a CPU of either byte order.                                  *)
(***************************************************************************)
InitSend ==
    /\ InitTree
    /\ \E descriptor \in StringDescriptorInputs :
            cusb_string = [s \in Strings |-> [descriptor |-> descriptor, dnode |-> FALSE]]
    /\ \E descriptor \in StringDescriptorZeroInputs :
            cusb_string_zero = [descriptor |-> descriptor]
    /\ buf \in BufferInputs
    /\ host \in HostInputs

NextSend ==
    \/ \E c \in Configurations : cusbd_add_configuration(c)
    \/ cusbd_start
    \/ \E s \in Strings, len \in 0..Len(buf) : cusb_string_send(s, len)
    \/ \E len \in 0..Len(buf) : cusb_string_zero_send(len)

SpecSend == InitSend /\ [][NextSend]_vars

(***************************************************************************)
(* The application has attached n configurations without interfaces, for   *)
(* any n up to MaxConfigurationCount, and starts the device.               *)
(***************************************************************************)
InitCount ==
    /\ \E n \in 0..MaxConfigurationCount :
        /\ cusbd = [descriptor |-> CUSB_DEVICE_DESCRIPTOR_CTOR(8),
                    string0 |-> "CUSBD_STRING_ZERO_UNUSED",
                    configurations |-> [k \in 1..n |-> k],
                    manufacturer_strings |-> <<>>,
                    product_strings |-> <<>>,
                    serial_number_strings |-> <<>>]
        /\ cusb_configuration =
                [c \in 1..n |->
                    [descriptor |-> CUSB_CONFIGURATION_DESCRIPTOR_CTOR, dnode |-> TRUE,
                     interfaces |-> <<>>, strings |-> <<>>]]
        /\ attached = n
    /\ cusb_interface =
            [i \in Interfaces |->
                [descriptor |-> CUSB_INTERFACE_DESCRIPTOR_CTOR, dnode |-> FALSE,
                 alternate_interfaces |-> <<>>, endpoints |-> <<>>, strings |-> <<>>]]
    /\ cusb_alternate_interface =
            [a \in AlternateInterfaces |->
                [descriptor |-> CUSB_INTERFACE_DESCRIPTOR_CTOR, dnode |-> FALSE,
                 endpoints |-> <<>>, strings |-> <<>>]]
    /\ cusb_endpoint =
            [e \in Endpoints |->
                [descriptor |-> CUSB_ENDPOINT_DESCRIPTOR_CTOR(129, BMATTRIBUTES_BULK_TYPE),
                 dnode |-> FALSE]]
    /\ cusb_string =
            [s \in Strings |->
                [descriptor |-> CUSB_STRING_DESCRIPTOR_CTOR(<<65, 12354>>),
                 dnode |-> FALSE]]
    /\ cusb_string_zero =
            [descriptor |-> CUSB_STRING_DESCRIPTOR_ZERO_CTOR(<<1033, 2057>>)]
    /\ buf = <<>>
    /\ host = "little"
    /\ ret = 0
    /\ descriptor_arg = NoDescriptor
    /\ phase = "setup"
    /\ asserted = FALSE

NextCount == cusbd_start

SpecCount == InitCount /\ [][NextCount]_vars

(***************************************************************************)
(* The application attaches the nodes of a tree without strings on setup,  *)
(* starts the device once and then calls the functions that read the tree, *)
(* in any order and any number of times.  The device has a string          *)
(* descriptor zero; the first endpoint is 0x81 and the others are 0x01.    *)
(***************************************************************************)
\* The len the application passes with its buffer: the size of the buffer,
\* or 0.
ReadLenInputs == {0, Len(buf)}

InitRead ==
    /\ InitTree
    /\ cusbd.string0 = "populated"
    /\ \A e \in Endpoints :
            cusb_endpoint[e].descriptor.bEndpointAddress = IF e = 1 THEN 129 ELSE 1
    /\ cusb_string =
            [s \in Strings |->
                [descriptor |-> CUSB_STRING_DESCRIPTOR_CTOR(<<65, 12354>>),
                 dnode |-> FALSE]]
    /\ cusb_string_zero =
            [descriptor |-> CUSB_STRING_DESCRIPTOR_ZERO_CTOR(<<1033, 2057>>)]
    /\ buf = [k \in 1..MaxBufferLength |-> 255]
    /\ host = "big"

NextRead ==
    \/ /\ phase = "setup"
       /\ \/ \E c \in Configurations : cusbd_add_configuration(c)
          \/ \E c \in Configurations, i \in Interfaces :
                cusb_configuration_add_interface(c, i)
          \/ \E i \in Interfaces, a \in AlternateInterfaces :
                cusb_interface_add_alternate_interface(i, a)
          \/ \E i \in Interfaces, e \in Endpoints : cusb_interface_add_endpoint(i, e)
          \/ \E a \in AlternateInterfaces, e \in Endpoints :
                cusb_alternate_interface_add_endpoint(a, e)
    \/ phase = "setup" /\ cusbd_start
    \/ /\ StartReturned
       /\ \/ \E c \in Configurations : read_cusb_configuration_valid(c)
          \/ \E i \in Interfaces : read_cusb_interface_valid(i)
          \/ \E a \in AlternateInterfaces : read_cusb_alternate_interface_valid(a)
          \/ \E e \in Endpoints : read_cusb_endpoint_valid(e)
          \/ \E s \in Strings : read_cusb_string_valid(s)
          \/ read_cusb_string_zero_valid
          \/ \E c \in Configurations : read_cusb_configuration_interface_count(c)
          \/ \E c \in Configurations : read_cusb_configuration_size(c)
          \/ \E i \in Interfaces : read_cusb_interface_size(i)
          \/ \E a \in AlternateInterfaces : read_cusb_alternate_interface_size(a)
          \/ \E s \in Strings, len \in ReadLenInputs : cusb_string_send(s, len)
          \/ \E len \in ReadLenInputs : cusb_string_zero_send(len)

SpecRead == InitRead /\ [][NextRead]_vars

(***************************************************************************)
(* Construction.  The application holds one descriptor, of any kind and    *)
(* value, and passes it to the constructor of that kind for any object;    *)
(* it then calls the functions that read what was constructed.             *)
(***************************************************************************)
\* Every bEndpointAddress, and every bmAttributes with bits 7..6 clear.
EndpointDescriptorCandidates ==
    {CUSB_ENDPOINT_DESCRIPTOR_CTOR(bEndpointAddress, bmAttributes) :
        bEndpointAddress \in 0..(UINT8_MODULUS - 1),
        bmAttributes \in 0..(BMATTRIBUTES_TRANSFER_TYPE_BITMASK
                                + BMATTRIBUTES_SYNC_TYPE_BITMASK
                                + BMATTRIBUTES_USAGE_TYPE_BITMASK)}

\* The descriptor of the macro, and two with one wrong field each.
ConfigurationDescriptorCandidates ==
    {CUSB_CONFIGURATION_DESCRIPTOR_CTOR,
     [CUSB_CONFIGURATION_DESCRIPTOR_CTOR EXCEPT !.bLength = @ - 1],
     [CUSB_CONFIGURATION_DESCRIPTOR_CTOR EXCEPT
        !.bDescriptorType = CUSB_INTERFACE_DESCRIPTOR_TYPE]}

\* The descriptors of the macro for every literal of 1..MaxCharacters code
\* units.
StringDescriptorCandidates ==
    {CUSB_STRING_DESCRIPTOR_CTOR(literal) : literal \in StringLiteralInputs}

\* The descriptors of the macro for every array of 1..MaxLanguages IDs.
StringDescriptorZeroCandidates ==
    {CUSB_STRING_DESCRIPTOR_ZERO_CTOR(languages) : languages \in LanguagesInputs}

DescriptorCandidates ==
    {[kind |-> "endpoint", descriptor |-> d] : d \in EndpointDescriptorCandidates}
    \cup {[kind |-> "configuration", descriptor |-> d] :
                d \in ConfigurationDescriptorCandidates}
    \cup {[kind |-> "string", descriptor |-> d] : d \in StringDescriptorCandidates}
    \cup {[kind |-> "string_zero", descriptor |-> d] :
                d \in StringDescriptorZeroCandidates}

\* What the memory of a struct cusb_configuration holds before it is
\* constructed is indeterminate: the bytes of a valid descriptor (an object
\* that is constructed again, or by chance) or others, as in zeroed
\* memory.
ConfigurationMemoryInputs ==
    {CUSB_CONFIGURATION_DESCRIPTOR_CTOR,
     [CUSB_CONFIGURATION_DESCRIPTOR_CTOR EXCEPT !.bLength = 0, !.bDescriptorType = 0]}

\* The object is constructed: only its own variable changes.
cusb_endpoint_ctor(me) ==
    /\ Running
    /\ descriptor_arg.kind = "endpoint"
    /\ IF ~endpoint_descriptor_valid(descriptor_arg.descriptor)
       THEN Abort
       ELSE /\ cusb_endpoint' =
                    [cusb_endpoint EXCEPT
                        ![me] = [descriptor |-> descriptor_arg.descriptor, dnode |-> FALSE]]
            /\ UNCHANGED <<cusbd, cusb_configuration, cusb_interface,
                           cusb_alternate_interface, cusb_string, cusb_string_zero,
                           buf, host, ret, descriptor_arg, phase, asserted, attached>>

\* The assertion tests the descriptor of the object being constructed,
\* &me->descriptor, which the memcpy() below it has yet to write; the
\* argument is copied unchecked.
cusb_configuration_ctor(me) ==
    /\ Running
    /\ descriptor_arg.kind = "configuration"
    /\ IF ~configuration_descriptor_valid(cusb_configuration[me].descriptor)
       THEN Abort
       ELSE /\ cusb_configuration' =
                    [cusb_configuration EXCEPT
                        ![me] = [descriptor |-> descriptor_arg.descriptor,
                                 dnode |-> FALSE,
                                 interfaces |-> <<>>, strings |-> <<>>]]
            /\ UNCHANGED <<cusbd, cusb_interface, cusb_alternate_interface,
                           cusb_endpoint, cusb_string, cusb_string_zero,
                           buf, host, ret, descriptor_arg, phase, asserted, attached>>

cusb_string_zero_ctor ==
    /\ Running
    /\ descriptor_arg.kind = "string_zero"
    /\ IF ~string_descriptor_zero_valid(descriptor_arg.descriptor)
       THEN Abort
       ELSE /\ cusb_string_zero' = [descriptor |-> descriptor_arg.descriptor]
            /\ UNCHANGED <<cusbd, cusb_configuration, cusb_interface,
                           cusb_alternate_interface, cusb_endpoint, cusb_string,
                           buf, host, ret, descriptor_arg, phase, asserted, attached>>

cusb_string_ctor(me) ==
    /\ Running
    /\ descriptor_arg.kind = "string"
    /\ IF ~string_descriptor_valid(descriptor_arg.descriptor)
       THEN Abort
       ELSE /\ cusb_string' =
                    [cusb_string EXCEPT
                        ![me] = [descriptor |-> descriptor_arg.descriptor, dnode |-> FALSE]]
            /\ UNCHANGED <<cusbd, cusb_configuration, cusb_interface,
                           cusb_alternate_interface, cusb_endpoint, cusb_string_zero,
                           buf, host, ret, descriptor_arg, phase, asserted, attached>>

\* The loop compares the first cusb_string_zero_langid_count() elements.
cusb_string_zero_has_langid(wLANGID) ==
    \E i \in 1..cusb_string_zero_langid_count :
        cusb_string_zero.descriptor.wLANGID[i] = wLANGID

\* The two functions of string zero that return a value are called on a
\* constructed object.
read_cusb_string_zero_langid_count ==
    /\ cusb_string_zero.descriptor # NoDescriptor
    /\ IF string_zero_array_size % SIZEOF_WLANGID # 0
       THEN Running /\ Abort
       ELSE Read(cusb_string_zero_langid_count)

read_cusb_string_zero_has_langid(wLANGID) ==
    /\ cusb_string_zero.descriptor # NoDescriptor
    /\ IF ~cusb_string_zero_valid
       THEN Running /\ Abort
       ELSE Read(bool(cusb_string_zero_has_langid(wLANGID)))

InitCtor ==
    /\ cusbd = [descriptor |-> CUSB_DEVICE_DESCRIPTOR_CTOR(8),
                string0 |-> "CUSBD_STRING_ZERO_UNUSED",
                configurations |-> <<>>,
                manufacturer_strings |-> <<>>,
                product_strings |-> <<>>,
                serial_number_strings |-> <<>>]
    /\ descriptor_arg \in DescriptorCandidates
    /\ \E d \in [Configurations -> ConfigurationMemoryInputs] :
         cusb_configuration =
            [c \in Configurations |->
                [descriptor |->
                    IF descriptor_arg.kind = "configuration"
                    THEN d[c] ELSE CUSB_CONFIGURATION_DESCRIPTOR_CTOR,
                 dnode |-> FALSE, interfaces |-> <<>>, strings |-> <<>>]]
    /\ cusb_interface =
            [i \in Interfaces |->
                [descriptor |-> CUSB_INTERFACE_DESCRIPTOR_CTOR, dnode |-> FALSE,
                 alternate_interfaces |-> <<>>, endpoints |-> <<>>, strings |-> <<>>]]
    /\ cusb_alternate_interface =
            [a \in AlternateInterfaces |->
                [descriptor |-> CUSB_INTERFACE_DESCRIPTOR_CTOR, dnode |-> FALSE,
                 endpoints |-> <<>>, strings |-> <<>>]]
    \* Zeroed memory.
    /\ cusb_endpoint =
            [e \in Endpoints |->
                [descriptor |->
                    [bLength |-> 0, bDescriptorType |-> 0,
                     bEndpointAddress |-> 0, bmAttributes |-> 0],
                 dnode |-> FALSE]]
    /\ cusb_string = [s \in Strings |-> [descriptor |-> NoDescriptor, dnode |-> FALSE]]
    /\ cusb_string_zero = [descriptor |-> NoDescriptor]
    /\ buf = [k \in 1..MaxBufferLength |-> 255]
    /\ host = "little"
    /\ ret = 0
    /\ phase = "setup"
    /\ asserted = FALSE
    /\ attached = 0

NextCtor ==
    \/ \E e \in Endpoints : cusb_endpoint_ctor(e)
    \/ \E c \in Configurations : cusb_configuration_ctor(c)
    \/ \E s \in Strings : cusb_string_ctor(s)
    \/ cusb_string_zero_ctor
    \/ \E e \in Endpoints : read_cusb_endpoint_valid(e)
    \/ \E c \in Configurations : read_cusb_configuration_valid(c)
    \/ read_cusb_string_zero_langid_count
    \/ \E wLANGID \in UNION {Range(languages) : languages \in LanguagesInputs} :
            read_cusb_string_zero_has_langid(wLANGID)

SpecCtor == InitCtor /\ [][NextCtor]_vars

(***************************************************************************)
(* Lengths.  The application initialises the string descriptors by hand,   *)
(* with any bLength the constructors accept, and serialises them into a    *)
(* buffer that holds the longest descriptor of an 8-bit bLength.           *)
(***************************************************************************)
\* The array of a descriptor of `bLength` bytes: the elements that follow
\* the two bytes of the header, and at least one.
LengthArray(bLength, element) ==
    [k \in 1..(IF bLength >= 4 THEN (bLength - 2) \div 2 ELSE 1) |-> element]

\* Every value of the uint8_t bLength that cusb_string_ctor() accepts.
StringDescriptorLengthInputs ==
    {d \in {[bLength |-> bLength,
             bDescriptorType |-> CUSB_STRING_DESCRIPTOR_TYPE,
             bString |-> LengthArray(bLength, 12354)] :
                bLength \in 0..(UINT8_MODULUS - 1)} :
        string_descriptor_valid(d)}

\* Every value of the uint8_t bLength that cusb_string_zero_ctor() accepts.
StringDescriptorZeroLengthInputs ==
    {d \in {[bLength |-> bLength,
             bDescriptorType |-> CUSB_STRING_DESCRIPTOR_TYPE,
             wLANGID |-> LengthArray(bLength, 1033)] :
                bLength \in 0..(UINT8_MODULUS - 1)} :
        string_descriptor_zero_valid(d)}

\* One of the two kinds of string takes every length; the other holds two
\* characters, or one language ID.
InitLength ==
    /\ InitTree
    /\ \E string \in StringDescriptorLengthInputs, string_zero \in StringDescriptorZeroLengthInputs :
        /\ \/ string.bLength = 6
           \/ string_zero.bLength = 4
        /\ cusb_string = [s \in Strings |-> [descriptor |-> string, dnode |-> FALSE]]
        /\ cusb_string_zero = [descriptor |-> string_zero]
    /\ buf = [k \in 1..UINT8_MODULUS |-> 255]
    /\ host = "little"

\* len: none, the length of the descriptor, or the whole buffer.
LengthLenInputs(descriptor) == {0, descriptor.bLength, Len(buf)}

NextLength ==
    \/ \E s \in Strings :
            \E len \in LengthLenInputs(cusb_string[s].descriptor) :
                cusb_string_send(s, len)
    \/ \E len \in LengthLenInputs(cusb_string_zero.descriptor) :
            cusb_string_zero_send(len)

SpecLength == InitLength /\ [][NextLength]_vars

TypeOK ==
    /\ phase \in {"setup", "started", "restarted", "modified"}
    /\ cusbd.descriptor.bNumConfigurations \in 0..(UINT8_MODULUS - 1)
    /\ asserted \in BOOLEAN
    /\ attached \in 0..MaxAttached
    /\ host \in HostInputs
    /\ ret \in 0..(SIZE_T_MODULUS - 1)
    /\ buf \in Seq(0..(UINT8_MODULUS - 1))
    /\ Len(buf) <= MaxBufferLength
    /\ \A c \in Configurations :
            cusb_configuration[c].dnode <=> c \in Range(cusbd.configurations)
    /\ \A i \in Interfaces :
            cusb_interface[i].dnode <=>
                \E c \in Configurations : i \in Range(cusb_configuration[c].interfaces)
    /\ \A a \in AlternateInterfaces :
            cusb_alternate_interface[a].dnode <=>
                \E i \in Interfaces : a \in Range(cusb_interface[i].alternate_interfaces)
    /\ \A e \in Endpoints :
            cusb_endpoint[e].dnode <=>
                \/ \E i \in Interfaces : e \in Range(cusb_interface[i].endpoints)
                \/ \E a \in AlternateInterfaces :
                        e \in Range(cusb_alternate_interface[a].endpoints)
    /\ \A s \in Strings :
            cusb_string[s].dnode <=>
                \/ s \in Range(cusbd.manufacturer_strings)
                \/ s \in Range(cusbd.product_strings)
                \/ s \in Range(cusbd.serial_number_strings)
                \/ \E c \in Configurations : s \in Range(cusb_configuration[c].strings)
                \/ \E i \in Interfaces : s \in Range(cusb_interface[i].strings)
                \/ \E a \in AlternateInterfaces :
                        s \in Range(cusb_alternate_interface[a].strings)

(***************************************************************************)
(* Vocabulary of the properties.                                           *)
(***************************************************************************)

NumAttachedConfigurations == Len(cusbd.configurations)

\* Every child list of the tree.
Tree ==
    <<cusbd.configurations, cusbd.manufacturer_strings, cusbd.product_strings,
      cusbd.serial_number_strings,
      [c \in Configurations |->
            <<cusb_configuration[c].interfaces, cusb_configuration[c].strings>>],
      [i \in Interfaces |->
            <<cusb_interface[i].alternate_interfaces, cusb_interface[i].endpoints,
              cusb_interface[i].strings>>],
      [a \in AlternateInterfaces |->
            <<cusb_alternate_interface[a].endpoints, cusb_alternate_interface[a].strings>>]>>

RECURSIVE SumOver(_, _)
SumOver(objects, count) ==
    IF objects = {} THEN 0
    ELSE LET o == CHOOSE x \in objects : TRUE
         IN  count[o] + SumOver(objects \ {o}, count)

\* Byte length of the descriptors below a configuration: 9 for each interface
\* and alternate interface, 7 for each endpoint they own.
RECURSIVE AlternateInterfaceBytes(_)
AlternateInterfaceBytes(list) ==
    IF list = <<>> THEN 0
    ELSE SIZEOF_INTERFACE_DESCRIPTOR
         + SIZEOF_ENDPOINT_DESCRIPTOR * Len(cusb_alternate_interface[Head(list)].endpoints)
         + AlternateInterfaceBytes(Tail(list))

RECURSIVE InterfaceBytes(_)
InterfaceBytes(list) ==
    IF list = <<>> THEN 0
    ELSE SIZEOF_INTERFACE_DESCRIPTOR
         + SIZEOF_ENDPOINT_DESCRIPTOR * Len(cusb_interface[Head(list)].endpoints)
         + AlternateInterfaceBytes(cusb_interface[Head(list)].alternate_interfaces)
         + InterfaceBytes(Tail(list))

SubtreeBytes(configuration) ==
    SIZEOF_CONFIGURATION_DESCRIPTOR
    + InterfaceBytes(cusb_configuration[configuration].interfaces)

(***************************************************************************)
(* C1.  After cusbd_start() has returned, the k-th configuration of the    *)
(* device's list, in attachment order, stores bConfigurationValue = k.     *)
(* The code counts the configurations in a local and never stores it.      *)
(***************************************************************************)
C1_ConfigurationValues ==
    StartReturned =>
        \A k \in 1..Len(cusbd.configurations) :
            cusb_configuration[cusbd.configurations[k]].descriptor.bConfigurationValue = k

(***************************************************************************)
(* C2.  After cusbd_start() has returned, every attached configuration     *)
(* stores in wTotalLength the byte length of its own subtree.              *)
(***************************************************************************)
C2_TotalLength ==
    StartReturned =>
        \A c \in Range(cusbd.configurations) :
            cusb_configuration[c].descriptor.wTotalLength = SubtreeBytes(c)

(***************************************************************************)
(* C3.  After cusbd_start() has returned, every attached configuration     *)
(* stores in bNumInterfaces the number of interfaces in its own list.      *)
(***************************************************************************)
C3_NumInterfaces ==
    StartReturned =>
        \A c \in Range(cusbd.configurations) :
            cusb_configuration[c].descriptor.bNumInterfaces
                = Len(cusb_configuration[c].interfaces)

(***************************************************************************)
(* C4.  After cusbd_start() has returned, every interface and every        *)
(* alternate interface of the tree stores in bNumEndpoints the number of   *)
(* endpoints in its own list.                                              *)
(***************************************************************************)
C4_NumEndpoints ==
    StartReturned =>
        \A c \in Range(cusbd.configurations) :
            \A i \in Range(cusb_configuration[c].interfaces) :
                /\ cusb_interface[i].descriptor.bNumEndpoints
                        = Len(cusb_interface[i].endpoints)
                /\ \A a \in Range(cusb_interface[i].alternate_interfaces) :
                        cusb_alternate_interface[a].descriptor.bNumEndpoints
                            = Len(cusb_alternate_interface[a].endpoints)

(***************************************************************************)
(* C5.  After cusbd_start() has returned on a device with N attached       *)
(* configurations, 1 <= N <= 255, bNumConfigurations = N.                  *)
(***************************************************************************)
C5_NumConfigurations ==
    (StartReturned /\ NumAttachedConfigurations \in 1..(UINT8_MODULUS - 1)) =>
        cusbd.descriptor.bNumConfigurations = NumAttachedConfigurations

\* cusbd_start() has returned on a device with two configurations.
C5_Witness ==
    /\ StartReturned
    /\ NumAttachedConfigurations = 2
    /\ cusbd.descriptor.bNumConfigurations = 2

(***************************************************************************)
(* C6.  After cusbd_start() has returned, the j-th interface of every      *)
(* attached configuration, in attachment order, stores bInterfaceNumber =  *)
(* j - 1.                                                                  *)
(***************************************************************************)
C6_InterfaceNumbers ==
    StartReturned =>
        \A c \in Range(cusbd.configurations) :
            \A j \in 1..Len(cusb_configuration[c].interfaces) :
                cusb_interface[cusb_configuration[c].interfaces[j]]
                    .descriptor.bInterfaceNumber = j - 1

(***************************************************************************)
(* C7.  After cusbd_start() has returned, every alternate interface stores *)
(* the bInterfaceNumber of the interface that owns it, and the k-th        *)
(* alternate interface of one interface, in attachment order, stores       *)
(* bAlternateSetting = k - 1.                                              *)
(***************************************************************************)
C7_AlternateSettings ==
    StartReturned =>
        \A c \in Range(cusbd.configurations) :
            \A i \in Range(cusb_configuration[c].interfaces) :
                \A k \in 1..Len(cusb_interface[i].alternate_interfaces) :
                    LET a == cusb_interface[i].alternate_interfaces[k]
                    IN  /\ cusb_alternate_interface[a].descriptor.bInterfaceNumber
                                = cusb_interface[i].descriptor.bInterfaceNumber
                        /\ cusb_alternate_interface[a].descriptor.bAlternateSetting
                                = k - 1

(***************************************************************************)
(* C8.  Every node is linked into at most one child list and at most once, *)
(* and an attach call whose child is already linked fails and leaves every *)
(* list as it was.                                                         *)
(***************************************************************************)
C8_Chain(lists, n) ==
    LET RECURSIVE chain(_)
        chain(k) == IF k = 0 THEN <<>> ELSE chain(k - 1) \o lists[k]
    IN  chain(n)

C8_NoRepeats(list) == \A m, n \in 1..Len(list) : m < n => list[m] # list[n]

C8_Membership ==
    /\ C8_NoRepeats(cusbd.configurations)
    /\ C8_NoRepeats(C8_Chain([c \in Configurations |-> cusb_configuration[c].interfaces],
                             NumConfigurations))
    /\ C8_NoRepeats(C8_Chain([i \in Interfaces |-> cusb_interface[i].alternate_interfaces],
                             NumInterfaces))
    /\ C8_NoRepeats(
            C8_Chain([i \in Interfaces |-> cusb_interface[i].endpoints], NumInterfaces)
            \o C8_Chain([a \in AlternateInterfaces |->
                            cusb_alternate_interface[a].endpoints],
                        NumAlternateInterfaces))
    /\ C8_NoRepeats(
            cusbd.manufacturer_strings \o cusbd.product_strings
            \o cusbd.serial_number_strings
            \o C8_Chain([c \in Configurations |-> cusb_configuration[c].strings],
                        NumConfigurations)
            \o C8_Chain([i \in Interfaces |-> cusb_interface[i].strings], NumInterfaces)
            \o C8_Chain([a \in AlternateInterfaces |-> cusb_alternate_interface[a].strings],
                        NumAlternateInterfaces))

C8_Fails ==
    /\ asserted'
    /\ cusbd'.configurations = cusbd.configurations
    /\ cusbd'.manufacturer_strings = cusbd.manufacturer_strings
    /\ cusbd'.product_strings = cusbd.product_strings
    /\ cusbd'.serial_number_strings = cusbd.serial_number_strings
    /\ UNCHANGED <<cusb_configuration, cusb_interface, cusb_alternate_interface>>

C8_LinkedChildFails ==
    \/ C8_Fails
    \/ /\ \A c \in Configurations :
            configuration_in_list(c) => ~cusbd_add_configuration(c)
       /\ \A i \in Interfaces :
            interface_in_list(i) =>
                \A c \in Configurations : ~cusb_configuration_add_interface(c, i)
       /\ \A a \in AlternateInterfaces :
            alternate_interface_in_list(a) =>
                \A i \in Interfaces : ~cusb_interface_add_alternate_interface(i, a)
       /\ \A e \in Endpoints :
            endpoint_in_list(e) =>
                /\ \A i \in Interfaces : ~cusb_interface_add_endpoint(i, e)
                /\ \A a \in AlternateInterfaces :
                        ~cusb_alternate_interface_add_endpoint(a, e)
       /\ \A s \in Strings :
            string_in_list(s) =>
                /\ ~cusbd_add_manufacturer_string(s)
                /\ ~cusbd_add_product_string(s)
                /\ ~cusbd_add_serial_number_string(s)
                /\ \A c \in Configurations : ~cusb_configuration_add_string(c, s)
                /\ \A i \in Interfaces : ~cusb_interface_add_string(i, s)
                /\ \A a \in AlternateInterfaces :
                        ~cusb_alternate_interface_add_string(a, s)

C8_SingleOwner == []C8_Membership /\ [][C8_LinkedChildFails]_vars

\* An attach of an already linked child has failed: an assertion fired
\* during setup, it was not one of cusbd_start() (which writes iManufacturer
\* first) and not the duplicate-address one (no endpoint is linked).
C8_Witness ==
    /\ asserted
    /\ phase = "setup"
    /\ cusbd.descriptor.iManufacturer = 0
    /\ \A e \in Endpoints : ~endpoint_in_list(e)
    /\ \E i \in Interfaces : interface_in_list(i)

(***************************************************************************)
(* C9.  The endpoints one interface or one alternate interface owns have   *)
(* pairwise different addresses, and attaching an endpoint that is not     *)
(* linked anywhere fails exactly when the owner it is attached to already  *)
(* holds an endpoint with the same bEndpointAddress.                       *)
(***************************************************************************)
C9_Address(endpoint) == cusb_endpoint[endpoint].descriptor.bEndpointAddress

C9_Holds(list, endpoint) ==
    \E n \in 1..Len(list) : C9_Address(list[n]) = C9_Address(endpoint)

C9_Distinct(list) ==
    \A m, n \in 1..Len(list) : m # n => C9_Address(list[m]) # C9_Address(list[n])

C9_OwnerScoped ==
    \A e \in Endpoints :
        ~endpoint_in_list(e) =>
            /\ \A i \in Interfaces :
                \/ asserted' <=> C9_Holds(cusb_interface[i].endpoints, e)
                \/ ~cusb_interface_add_endpoint(i, e)
            /\ \A a \in AlternateInterfaces :
                \/ asserted' <=> C9_Holds(cusb_alternate_interface[a].endpoints, e)
                \/ ~cusb_alternate_interface_add_endpoint(a, e)

C9_DuplicateAddress ==
    /\ [](/\ \A i \in Interfaces : C9_Distinct(cusb_interface[i].endpoints)
          /\ \A a \in AlternateInterfaces :
                C9_Distinct(cusb_alternate_interface[a].endpoints))
    /\ [][C9_OwnerScoped]_vars

\* Two endpoints with the same address were both accepted, by two interfaces.
C9_Witness ==
    /\ ~asserted
    /\ \E i1, i2 \in Interfaces : \E e1, e2 \in Endpoints :
        /\ i1 # i2
        /\ e1 # e2
        /\ C9_Address(e1) = C9_Address(e2)
        /\ e1 \in Range(cusb_interface[i1].endpoints)
        /\ e2 \in Range(cusb_interface[i2].endpoints)

(***************************************************************************)
(* C10.  Once cusbd_start() has returned, no later call changes a child    *)
(* list: every attach fails.  The attach functions hold no check of the    *)
(* device's state, so they link the child as before.                       *)
(***************************************************************************)
C10_FrozenAfterStart == [][(phase # "setup") => (Tree' = Tree)]_vars

(***************************************************************************)
(* C11.  A call of cusbd_start() on a tree on which it was the last call   *)
(* to return either fails or leaves every descriptor of the device and of  *)
(* every node equal to its value after the first call.                     *)
(***************************************************************************)
C11_Descriptors ==
    <<cusbd.descriptor,
      [c \in Configurations |-> cusb_configuration[c].descriptor],
      [i \in Interfaces |-> cusb_interface[i].descriptor],
      [a \in AlternateInterfaces |-> cusb_alternate_interface[a].descriptor],
      [e \in Endpoints |-> cusb_endpoint[e].descriptor]>>

C11_SecondStart ==
    [][(StartReturned /\ cusbd_start) =>
            (asserted' \/ C11_Descriptors' = C11_Descriptors)]_vars

\* cusbd_start() has returned twice in a row.
C11_Witness == phase = "restarted" /\ ~asserted

(***************************************************************************)
(* C12.  cusbd_start() on a device without an attached configuration fails *)
(* and leaves bNumConfigurations as it was.                                *)
(***************************************************************************)
C12_NoConfiguration ==
    [][(cusbd.configurations = <<>> /\ cusbd_start) =>
            /\ asserted'
            /\ cusbd'.descriptor.bNumConfigurations
                    = cusbd.descriptor.bNumConfigurations]_vars

\* cusbd_start() has failed on a device without a configuration: the string
\* indices are written, which only cusbd_start() does.
C12_Witness ==
    /\ asserted
    /\ cusbd.configurations = <<>>
    /\ cusbd.descriptor.iManufacturer = CUSBD_MANUFACTURER_STRING_ID
    /\ cusbd.descriptor.bNumConfigurations = 0

(***************************************************************************)
(* C13.  cusbd_start() never returns on a tree in which an attached        *)
(* configuration has no interface.  The traversal asserts nothing about    *)
(* the number of interfaces, so it does return.                            *)
(***************************************************************************)
C13_EveryConfigurationHasInterface ==
    StartReturned =>
        \A c \in Range(cusbd.configurations) :
            cusb_configuration[c].interfaces # <<>>

(***************************************************************************)
(* C14.  cusbd_start() never returns on a device constructed with          *)
(* CUSBD_STRING_ZERO_UNUSED whose tree holds a string.  cusbd_start()      *)
(* reads neither string0 nor any list of strings, so it does return.       *)
(***************************************************************************)
\* The strings of the device and of the nodes reachable from it.
C14_TreeStrings ==
    LET configurations == Range(cusbd.configurations)
        interfaces ==
            UNION {Range(cusb_configuration[c].interfaces) : c \in configurations}
        alternate_interfaces ==
            UNION {Range(cusb_interface[i].alternate_interfaces) : i \in interfaces}
    IN  Range(cusbd.manufacturer_strings) \cup Range(cusbd.product_strings)
        \cup Range(cusbd.serial_number_strings)
        \cup UNION {Range(cusb_configuration[c].strings) : c \in configurations}
        \cup UNION {Range(cusb_interface[i].strings) : i \in interfaces}
        \cup UNION {Range(cusb_alternate_interface[a].strings) :
                        a \in alternate_interfaces}

C14_StringsNeedStringZero ==
    (StartReturned /\ cusbd.string0 = "CUSBD_STRING_ZERO_UNUSED")
        => C14_TreeStrings = {}

\* A call of one of the two send functions.
SendStep ==
    \/ \E s \in Strings, len \in 0..Len(buf) : cusb_string_send(s, len)
    \/ \E len \in 0..Len(buf) : cusb_string_zero_send(len)

\* C15: while cusbd_start() has not returned on the device, a call of
\* cusb_string_send() or cusb_string_zero_send() fails and writes no byte to
\* the caller's buffer.
C15_SendBeforeStartFails ==
    [][(phase = "setup" /\ SendStep) => (asserted' /\ buf' = buf)]_vars

\* C16: a call of cusb_string_send() or cusb_string_zero_send() with len
\* smaller than the bLength of the descriptor fails and leaves every byte of
\* the buffer as it was.
C16_ShortBufferFails ==
    [][/\ \A s \in Strings, len \in 0..Len(buf) :
            \/ len >= cusb_string[s].descriptor.bLength
            \/ ~cusb_string_send(s, len)
            \/ asserted' /\ buf' = buf
       /\ \A len \in 0..Len(buf) :
            \/ len >= cusb_string_zero.descriptor.bLength
            \/ ~cusb_string_zero_send(len)
            \/ asserted' /\ buf' = buf]_vars

\* A send failed on a buffer shorter than both descriptors: nothing was
\* attached and cusbd_start(), which writes iManufacturer, never ran, so it
\* is a send that failed.
C16_Witness ==
    /\ asserted
    /\ cusbd.configurations = <<>>
    /\ cusbd.descriptor.iManufacturer = 0
    /\ Len(buf) >= 1
    /\ Len(buf) < cusb_string_zero.descriptor.bLength
    /\ \A s \in Strings : Len(buf) < cusb_string[s].descriptor.bLength
    /\ \A k \in 1..Len(buf) : buf[k] = 255

\* The code units of the literal a string descriptor was built from: the
\* array without its terminating NULL code unit.
CodeUnitsOf(descriptor) == SubSeq(descriptor.bString, 1, Len(descriptor.bString) - 1)

\* C17: on a CPU of either byte order, a cusb_string_send() that returns
\* has written bLength to byte 0, 0x03 to byte 1 and, for each of the n code
\* units of the string, its low byte to byte 2+2i and its high byte to byte
\* 3+2i; the bytes after these 2+2n, where a terminating NULL code unit would
\* go, are as they were.
C17_LittleEndianNoTerminator ==
    [][\A s \in Strings, len \in 0..Len(buf) :
            \/ ~cusb_string_send(s, len)
            \/ asserted'
            \/ LET descriptor == cusb_string[s].descriptor
                   units == CodeUnitsOf(descriptor)
                   n == Len(units)
               IN  /\ Len(buf') = Len(buf)
                   /\ buf'[1] = descriptor.bLength
                   /\ buf'[2] = 3
                   /\ \A i \in 0..(n - 1) :
                        /\ buf'[2 + 2 * i + 1] = units[i + 1] % 256
                        /\ buf'[3 + 2 * i + 1] = units[i + 1] \div 256
                   /\ \A k \in (2 + 2 * n + 1)..Len(buf) : buf'[k] = buf[k]]_vars

\* On a big-endian CPU a string that ends with U+3042 was sent into a buffer
\* one byte longer than the descriptor: 0x42 precedes 0x30 and the last byte
\* of the buffer is still 0xFF.
C17_Witness ==
    /\ ~asserted
    /\ host = "big"
    /\ \E s \in Strings :
            LET units == CodeUnitsOf(cusb_string[s].descriptor)
                n == Len(units)
            IN  /\ units[n] = 12354
                /\ Len(buf) = 2 + 2 * n + 1
                /\ buf[1] = 2 + 2 * n
                /\ buf[2] = 3
                /\ buf[2 * n + 1] = 66
                /\ buf[2 * n + 2] = 48
                /\ buf[2 * n + 3] = 255

\* C19: for every tree, cusb_configuration_size() of a configuration is 9
\* plus the sum of cusb_interface_size() over its interfaces, and that is 9
\* + 9 for each interface and alternate interface of the subtree + 7 for
\* each endpoint of the subtree.
C19_ConfigurationSize ==
    \A c \in Configurations :
        /\ cusb_configuration_size(c) =
                SIZEOF_CONFIGURATION_DESCRIPTOR
                + SumOver(Range(cusb_configuration[c].interfaces),
                          [i \in Interfaces |-> cusb_interface_size(i)])
        /\ cusb_configuration_size(c) = SubtreeBytes(c)

\* C20: for every interface, cusb_interface_size() is 9 + 7 for each of its
\* own endpoints + the sum of cusb_alternate_interface_size() over its
\* alternate interfaces, and cusb_alternate_interface_size() is 9 + 7 for
\* each endpoint of the alternate interface.
C20_InterfaceSize ==
    /\ \A a \in AlternateInterfaces :
            cusb_alternate_interface_size(a) =
                9 + 7 * Len(cusb_alternate_interface[a].endpoints)
    /\ \A i \in Interfaces :
            cusb_interface_size(i) =
                9 + 7 * Len(cusb_interface[i].endpoints)
                + SumOver(Range(cusb_interface[i].alternate_interfaces),
                          [a \in AlternateInterfaces |-> cusb_alternate_interface_size(a)])

\* A call of one of the functions that read the tree.
ReadStep ==
    \/ \E c \in Configurations : read_cusb_configuration_valid(c)
    \/ \E i \in Interfaces : read_cusb_interface_valid(i)
    \/ \E a \in AlternateInterfaces : read_cusb_alternate_interface_valid(a)
    \/ \E e \in Endpoints : read_cusb_endpoint_valid(e)
    \/ \E s \in Strings : read_cusb_string_valid(s)
    \/ read_cusb_string_zero_valid
    \/ \E c \in Configurations : read_cusb_configuration_interface_count(c)
    \/ \E c \in Configurations : read_cusb_configuration_size(c)
    \/ \E i \in Interfaces : read_cusb_interface_size(i)
    \/ \E a \in AlternateInterfaces : read_cusb_alternate_interface_size(a)
    \/ SendStep

\* Every field and every list of every object of the tree.
TreeFields ==
    <<cusbd, cusb_configuration, cusb_interface, cusb_alternate_interface,
      cusb_endpoint, cusb_string, cusb_string_zero>>

\* The bytes a send of the string writes on this CPU.
StringBytes(s) ==
    send_header_bytes(cusb_string[s].descriptor)
        \o send_array_bytes(cusb_string[s].descriptor.bString,
                            cusb_string_character_count(s))

StringZeroBytes ==
    send_header_bytes(cusb_string_zero.descriptor)
        \o send_array_bytes(cusb_string_zero.descriptor.wLANGID,
                            cusb_string_zero_langid_count)

\* The values the read functions return when they are called in this state.
ReturnValues ==
    {bool(cusb_configuration_valid(c)) : c \in Configurations}
    \cup {bool(cusb_interface_valid(i)) : i \in Interfaces}
    \cup {bool(cusb_alternate_interface_valid(a)) : a \in AlternateInterfaces}
    \cup {bool(cusb_endpoint_valid(e)) : e \in Endpoints}
    \cup {bool(cusb_string_valid(s)) : s \in Strings}
    \cup {bool(cusb_string_zero_valid)}
    \cup {cusb_configuration_interface_count(c) : c \in Configurations}
    \cup {cusb_configuration_size(c) : c \in Configurations}
    \cup {cusb_interface_size(i) : i \in Interfaces}
    \cup {cusb_alternate_interface_size(a) : a \in AlternateInterfaces}

\* After any number of reads in any order, the value the last call returned
\* is one a read function returns on the tree as it is now, and every byte
\* of the buffer is the 0xFF it held at first or the byte a descriptor has
\* at that offset.
C18_SameResults ==
    (StartReturned /\ ~asserted) =>
        /\ ret \in ReturnValues \cup {0}
        /\ \A k \in 1..Len(buf) :
                \/ buf[k] = 255
                \/ \E s \in Strings :
                        k <= Len(StringBytes(s)) /\ buf[k] = StringBytes(s)[k]
                \/ k <= Len(StringZeroBytes) /\ buf[k] = StringZeroBytes[k]

\* A read changes no field and no list of the tree, and a send that returns
\* has written the bytes of its descriptor whatever the buffer held before.
\* (A send leaves ret as it is.)
C18_Frame ==
    \/ ~StartReturned
    \/ /\ TreeFields' = TreeFields
       /\ phase' = phase
       /\ host' = host
       /\ \/ ret' # ret
          \/ asserted'
          \/ /\ \A s \in Strings :
                    \/ SubSeq(buf', 1, Len(StringBytes(s))) = StringBytes(s)
                    \/ \A len \in ReadLenInputs : ~cusb_string_send(s, len)
             /\ \/ SubSeq(buf', 1, Len(StringZeroBytes)) = StringZeroBytes
                \/ \A len \in ReadLenInputs : ~cusb_string_zero_send(len)
    \/ ~ReadStep

\* C18: after cusbd_start() has returned, the read functions change no
\* field and no list of the tree, so any number of them, interleaved in any
\* order, each return the value and write the bytes the tree gives.
C18_ReadsChangeNothing == []C18_SameResults /\ [][C18_Frame]_vars

\* After the start, string zero, then the string were sent and then the
\* size of the first configuration, which owns an interface with an
\* endpoint, was read.
C18_Witness ==
    /\ phase = "started"
    /\ ~asserted
    /\ \E s \in Strings : buf = StringBytes(s) \o <<255>>
    /\ ret = cusb_configuration_size(cusbd.configurations[1])
    /\ ret >= 16

\* The configurations, interfaces and alternate interfaces reachable from
\* the device, each as <<kind, object>>.
C21_Nodes ==
    LET configurations == Range(cusbd.configurations)
        interfaces ==
            UNION {Range(cusb_configuration[c].interfaces) : c \in configurations}
        alternate_interfaces ==
            UNION {Range(cusb_interface[i].alternate_interfaces) : i \in interfaces}
    IN  {<<"configuration", c>> : c \in configurations}
        \cup {<<"interface", i>> : i \in interfaces}
        \cup {<<"alternate_interface", a>> : a \in alternate_interfaces}

C21_Strings(node) ==
    CASE node[1] = "configuration" -> cusb_configuration[node[2]].strings
      [] node[1] = "interface" -> cusb_interface[node[2]].strings
      [] node[1] = "alternate_interface" -> cusb_alternate_interface[node[2]].strings

C21_Index(node) ==
    CASE node[1] = "configuration" -> cusb_configuration[node[2]].descriptor.iConfiguration
      [] node[1] = "interface" -> cusb_interface[node[2]].descriptor.iInterface
      [] node[1] = "alternate_interface" ->
            cusb_alternate_interface[node[2]].descriptor.iInterface

\* C21: after cusbd_start() has returned, every node of the tree with an
\* attached string stores a string index >= CUSBD_USER_STRING_ID_BEGIN,
\* two such nodes store different indices, and a node without a string
\* stores index 0.
C21_StringIndices ==
    StartReturned =>
        /\ \A node \in C21_Nodes :
                IF C21_Strings(node) # <<>>
                THEN C21_Index(node) >= CUSBD_USER_STRING_ID_BEGIN
                ELSE C21_Index(node) = 0
        /\ \A m, n \in C21_Nodes :
                (m # n /\ C21_Strings(m) # <<>> /\ C21_Strings(n) # <<>>)
                    => C21_Index(m) # C21_Index(n)

\* C22: after cusbd_start() has returned, iManufacturer, iProduct and
\* iSerialNumber are 1, 2 and 3 where the device's list of those strings is
\* not empty and 0 where it is empty.
C22_DeviceStringIndices ==
    StartReturned =>
        /\ cusbd.descriptor.iManufacturer =
                IF cusbd.manufacturer_strings # <<>>
                THEN CUSBD_MANUFACTURER_STRING_ID ELSE 0
        /\ cusbd.descriptor.iProduct =
                IF cusbd.product_strings # <<>> THEN CUSBD_PRODUCT_STRING_ID ELSE 0
        /\ cusbd.descriptor.iSerialNumber =
                IF cusbd.serial_number_strings # <<>>
                THEN CUSBD_SERIAL_NUMBER_STRING_ID ELSE 0

\* C30: a cusbd_start() that fails leaves the device descriptor and the
\* descriptor of every node as they were before the call.
C30_FailedStartChangesNothing ==
    [][(cusbd_start /\ asserted') => (C11_Descriptors' = C11_Descriptors)]_vars

\* C28: with more configurations attached than the 8-bit field
\* bNumConfigurations holds, cusbd_start() fails; a cusbd_start() that
\* returns has stored the number of attached configurations.
C28_CountOverflowFails ==
    [][cusbd_start =>
            \/ asserted'
            \/ /\ ecu_dlist_size(cusbd.configurations) <= UINT8_MODULUS - 1
               /\ cusbd'.descriptor.bNumConfigurations =
                        ecu_dlist_size(cusbd.configurations)]_vars

\* Bits 3..0 of the address are the endpoint number and bits 6..4 are
\* reserved; bit 7 is the direction.
C23_AddressIllegal(descriptor) ==
    \/ descriptor.bEndpointAddress % 16 = 0
    \/ (descriptor.bEndpointAddress \div 16) % 8 # 0

\* No object holds, as a valid endpoint, a descriptor with endpoint number
\* zero or a reserved address bit set, and the descriptor the application
\* holds is not valid if it is one.
C23_NeverValid ==
    /\ \A e \in Endpoints :
            C23_AddressIllegal(cusb_endpoint[e].descriptor) => ~cusb_endpoint_valid(e)
    /\ (descriptor_arg.kind = "endpoint"
            /\ C23_AddressIllegal(descriptor_arg.descriptor))
        => ~endpoint_descriptor_valid(descriptor_arg.descriptor)

C23_CtorFails ==
    \/ descriptor_arg.kind # "endpoint"
    \/ ~C23_AddressIllegal(descriptor_arg.descriptor)
    \/ asserted' /\ cusb_endpoint' = cusb_endpoint
    \/ \A e \in Endpoints : ~cusb_endpoint_ctor(e)

\* C23: cusb_endpoint_ctor() fails on, and cusb_endpoint_valid() returns
\* false for, every endpoint descriptor whose endpoint number is zero or
\* whose reserved address bits are not all zero, whatever its direction bit
\* and its other fields.
C23_IllegalAddressRejected == []C23_NeverValid /\ [][C23_CtorFails]_vars

\* The constructor failed on the address 0x80: direction IN, number 0.
C23_Witness ==
    /\ asserted
    /\ descriptor_arg.kind = "endpoint"
    /\ descriptor_arg.descriptor.bEndpointAddress = 128
    /\ \A e \in Endpoints : ~cusb_endpoint_valid(e)

\* Control, bulk and interrupt endpoints (transfer type, bits 1..0, not 1)
\* have no synchronisation type (bits 3..2) and no usage type (bits 5..4);
\* an isochronous endpoint (transfer type 1) has no usage type 3.
C24_AttributesIllegal(descriptor) ==
    LET transfer == descriptor.bmAttributes % 4
        sync == (descriptor.bmAttributes \div 4) % 4
        usage == (descriptor.bmAttributes \div 16) % 4
    IN  IF transfer = 1 THEN usage = 3 ELSE sync # 0 \/ usage # 0

C25_CtorChecksArgument ==
    [][\A c \in Configurations :
            cusb_configuration_ctor(c)
            => /\ asserted' <=> ~configuration_descriptor_valid(descriptor_arg.descriptor)
               /\ ~asserted' => cusb_configuration_valid(c)']_vars

\* C26: a string descriptor zero built by the macro from an array of n >= 1
\* language IDs is accepted by the constructor, the count of the object is n
\* and every ID of the array is found.
C26_MacroLanguagesFound ==
    [][cusb_string_zero_ctor
        => /\ ~asserted'
           /\ cusb_string_zero_valid'
           /\ cusb_string_zero_langid_count' = Len(descriptor_arg.descriptor.wLANGID)
           /\ \A k \in 1..Len(descriptor_arg.descriptor.wLANGID) :
                cusb_string_zero_has_langid(descriptor_arg.descriptor.wLANGID[k])']_vars

\* C29: the descriptor the macro builds from a literal of n >= 1 code units is
\* accepted by cusb_string_ctor, and the constructed string is valid.
C29_MacroStringAccepted ==
    [][\A s \in Strings :
            cusb_string_ctor(s) => (~asserted' /\ cusb_string_valid(s)')]_vars

\* C27: for every bLength of the 8-bit field that the validity predicate
\* accepts, a send with len >= bLength returns having written the first
\* bLength bytes of the buffer and no other byte, so none past len.
C27_Wrote(bLength) ==
    /\ ~asserted'
    /\ \A k \in 1..Len(buf) :
            IF k <= bLength THEN buf'[k] # 255 ELSE buf'[k] = buf[k]

C27_SendWritesLength ==
    [][/\ \A s \in Strings :
          \A len \in LengthLenInputs(cusb_string[s].descriptor) :
            (/\ cusb_string_valid(s)
             /\ len >= cusb_string[s].descriptor.bLength
             /\ cusb_string_send(s, len))
            => C27_Wrote(cusb_string[s].descriptor.bLength)
       /\ \A len \in LengthLenInputs(cusb_string_zero.descriptor) :
            (/\ cusb_string_zero_valid
             /\ len >= cusb_string_zero.descriptor.bLength
             /\ cusb_string_zero_send(len))
            => C27_Wrote(cusb_string_zero.descriptor.bLength)]_vars

====
